---- MODULE Spec2Model ----
(***************************************************************************)
(* A model of f4pga/flows/common.py (dependency qualifiers, the process    *)
(* wrapper, ResolutionEnv, the verbosity gate) and of                      *)
(* f4pga/flows/modules/yosys.py (YosysModule).                             *)
(*                                                                         *)
(* Python strings are sequences of one-character strings.  Python values   *)
(* are tagged records: Str, List, Dict, None; a raised exception is the    *)
(* value Raised.                                                           *)
(***************************************************************************)
EXTENDS Integers, Sequences, FiniteSets, TLC

VARIABLES
    r_s,        \* resolve: the argument s
    r_values,   \* resolve: self.values
    r_final,    \* resolve: the argument final
    r_ret,      \* resolve: the returned value (NotCalled before the call)
    r_pc,       \* resolve: "idle" | "start" | "done"
    e_values,   \* ResolutionEnv objects 1 and 2: self.values (NoEnv: not made)
    e_heap,     \* the dict objects that self.values hold, by address
    e_last,     \* the last call on an environment, with the bindings before it
    e_ops,      \* calls made so far
    d_name,     \* dependency names: the name given to decompose_depname
    d_dec,      \* what decompose_depname returned
    d_out,      \* what with_qualifier returned
    d_pc,       \* "idle" | "start" | "decomposed" | "done"
    verbosity_level,    \* the module-level global of common.py
    v_stdout,   \* what sfprint has printed: the required level of each message
    v_last,     \* the last call of the verbosity gate
    v_set,      \* the argument of the last set_verbosity_level (0: none yet)
    m_fam,      \* FPGA_FAM of f4pga.context
    m_self,     \* the YosysModule object (None before __init__)
    m_ctx,      \* the ModuleContext given to map_io and execute
    m_mapping,  \* the last map_io call and what it returned
    m_msgs,     \* the progress messages execute has yielded
    m_after,    \* whether execute went on after its call of sub
    m_pc,       \* "idle" | "new" | "ready" | "yielded" | "exhausted"
                \* | "raised" | "exited"
    s_last,     \* the last call of sub
    p_files,    \* the files that exist, of those execute looks at
    p_stdout,   \* what the process has printed
    p_exit,     \* Running, or Exited(code) once exit(code) was called
    p_runs      \* the external processes run so far

rvars == <<r_s, r_values, r_final, r_ret, r_pc>>
evars == <<e_values, e_heap, e_last, e_ops>>
dvars == <<d_name, d_dec, d_out, d_pc>>
vvars == <<verbosity_level, v_stdout, v_last, v_set>>
mvars == <<m_fam, m_self, m_ctx, m_mapping, m_msgs, m_after, m_pc>>
pvars == <<s_last, p_files, p_stdout, p_exit, p_runs>>
vars == <<rvars, evars, dvars, vvars, mvars, pvars>>

(***************************************************************************)
(* Bounds of the model.                                                    *)
(***************************************************************************)
MaxParts == 3       \* fragments concatenated into a resolvable string
MaxOps == 3         \* calls on the resolution environments
MaxNameLen == 3     \* characters of a dependency name
MaxLevel == 3       \* verbosity levels 0..MaxLevel
MaxPrints == 3      \* messages printed through the verbosity gate
MaxRc == 2          \* exit codes 0..MaxRc of the external process
MaxRuns == 2        \* external processes run by one process

\* yosys.py 117: self.no_of_phases = 3
NoOfPhases == 3

(***************************************************************************)
(* Python values.                                                          *)
(***************************************************************************)
Str(s) == [t |-> "str", s |-> s]
List(l) == [t |-> "list", l |-> l]
Dict(d) == [t |-> "dict", d |-> d]
None == [t |-> "none"]
Raised == [t |-> "error"]
NotCalled == [t |-> "notcalled"]

NoEnv == [t |-> "noenv"]

EmptyDict == [k \in {} |-> None]

(***************************************************************************)
(* Each specification below runs one component; the others stay idle.      *)
(***************************************************************************)
IdleResolve ==
    /\ r_s = None
    /\ r_values = EmptyDict
    /\ r_final = FALSE
    /\ r_ret = NotCalled
    /\ r_pc = "idle"

IdleDepname ==
    /\ d_name = <<>>
    /\ d_dec = NotCalled
    /\ d_out = NotCalled
    /\ d_pc = "idle"

\* common.py 208: verbosity_level = 0
IdleVerbosity ==
    /\ verbosity_level = 0
    /\ v_stdout = <<>>
    /\ v_last = [op |-> "none"]
    /\ v_set = 0

Running == [t |-> "running"]
Exited(code) == [t |-> "exited", code |-> code]

IdleModule ==
    /\ m_fam = "none"
    /\ m_self = None
    /\ m_ctx = None
    /\ m_mapping = [op |-> "none"]
    /\ m_msgs = <<>>
    /\ m_after = FALSE
    /\ m_pc = "idle"
    /\ s_last = [op |-> "none"]
    /\ p_files = {}
    /\ p_stdout = <<>>
    /\ p_exit = Running
    /\ p_runs = 0

IdleEnv ==
    /\ e_values = <<NoEnv, NoEnv>>
    /\ e_heap = <<>>
    /\ e_last = [op |-> "none"]
    /\ e_ops = 0

\* Python truthiness: `not v`
Falsy(v) ==
    \/ v.t = "none"
    \/ v.t = "str" /\ v.s = <<>>
    \/ v.t = "list" /\ v.l = <<>>
    \/ v.t = "dict" /\ DOMAIN v.d = {}

\* dict.get(key): None when the key is absent
DictGet(d, key) == IF key \in DOMAIN d THEN d[key] ELSE None

(***************************************************************************)
(* re.finditer over the placeholder pattern: the non-overlapping matches,  *)
(* left to right.  A match is a dollar sign, an opening brace, any         *)
(* characters other than dollar sign and braces, then a closing brace.     *)
(* Positions of s are 1-based here; a span is Python's (0-based start,     *)
(* 0-based exclusive end).                                                 *)
(***************************************************************************)
Special == {"$", "{", "}"}

RECURSIVE SkipName(_, _)
SkipName(s, j) ==
    IF j > Len(s) \/ s[j] \in Special THEN j ELSE SkipName(s, j + 1)

MatchAt(s, i) ==
    /\ i + 2 <= Len(s)
    /\ s[i] = "$"
    /\ s[i + 1] = "{"
    /\ SkipName(s, i + 2) <= Len(s)
    /\ s[SkipName(s, i + 2)] = "}"

RECURSIVE re_finditer(_, _)
re_finditer(s, i) ==
    IF i > Len(s) THEN <<>>
    ELSE IF MatchAt(s, i)
         THEN LET j == SkipName(s, i + 2)
              IN  <<[span0 |-> i - 1, span1 |-> j,
                     group1 |-> SubSeq(s, i + 2, j - 1)]>>
                  \o re_finditer(s, j + 1)
         ELSE re_finditer(s, i + 1)

\* str.replace("?", "")
StripSoft(name) == SelectSeq(name, LAMBDA c : c # "?")

\* s[:span0] and s[span1:] of a Python string
Before(s, m) == SubSeq(s, 1, m.span0)
After(s, m) == SubSeq(s, m.span1 + 1, Len(s))

(***************************************************************************)
(* One iteration of the loop of ResolutionEnv.resolve over the matches     *)
(* (common.py 175-189).  cur is the loop's s, which is a str until a       *)
(* list-valued placeholder turns it into a list; slicing and "+" of a list *)
(* with a str raise TypeError.                                             *)
(***************************************************************************)
ResolveMatch(cur, m, values, final) ==
    LET v0 == DictGet(values, StripSoft(m.group1))
        v == IF Falsy(v0) THEN Str(<<>>) ELSE v0
    IN  IF cur.t = "error" THEN cur
        ELSE IF Falsy(v0) /\ ~final THEN cur
        ELSE IF v.t = "str"
             THEN IF cur.t = "str"
                  THEN Str(Before(cur.s, m) \o v.s \o After(cur.s, m))
                  ELSE Raised
        ELSE IF v.t = "list"
             THEN IF cur.t = "str" /\ \A i \in 1..Len(v.l) : v.l[i].t = "str"
                  THEN List([i \in 1..Len(v.l) |->
                              Str(Before(cur.s, m) \o v.l[i].s \o After(cur.s, m))])
                  ELSE Raised
        ELSE cur

\* the loop, over the matches in reverse order: matches[n], ..., matches[1]
RECURSIVE ResolveLoop(_, _, _, _, _)
ResolveLoop(cur, matches, n, values, final) ==
    IF n = 0 THEN cur
    ELSE ResolveLoop(ResolveMatch(cur, matches[n], values, final),
                     matches, n - 1, values, final)

\* ResolutionEnv.resolve(s, final); the recursive calls do not pass final on
RECURSIVE resolve(_, _, _)
resolve(s, values, final) ==
    IF s.t = "str"
    THEN LET match_list == re_finditer(s.s, 1)
         IN  ResolveLoop(s, match_list, Len(match_list), values, final)
    ELSE IF s.t = "list"
    THEN LET r == [i \in 1..Len(s.l) |-> resolve(s.l[i], values, FALSE)]
         IN  IF \E i \in 1..Len(s.l) : r[i].t = "error" THEN Raised ELSE List(r)
    ELSE IF s.t = "dict"
    THEN LET r == [k \in DOMAIN s.d |-> resolve(s.d[k], values, FALSE)]
         IN  IF \E k \in DOMAIN s.d : r[k].t = "error" THEN Raised ELSE Dict(r)
    ELSE s

(***************************************************************************)
(* The inputs of resolve: strings made of up to MaxParts fragments, put in *)
(* a scalar, a sequence or a mapping; environments binding the names b and *)
(* c.                                                                      *)
(***************************************************************************)
Fragments ==
    { <<"a">>, <<"$">>, <<"}">>,
      <<"$", "{", "b", "}">>, <<"$", "{", "c", "}">>,
      <<"$", "{", "b", "?", "}">> }

RECURSIVE StringsOf(_)
StringsOf(n) ==
    IF n = 0 THEN { <<>> }
    ELSE StringsOf(n - 1)
         \cup { s \o f : s \in StringsOf(n - 1), f \in Fragments }

Strings == StringsOf(MaxParts)

Shapes(s) ==
    { Str(s),
      List(<<Str(s)>>),
      Dict(<<"k">> :> Str(s)),
      Dict(<<"k">> :> List(<<Str(<<"a">>), Str(s)>>)) }

Inputs == UNION { Shapes(s) : s \in Strings }

BindingsB ==
    { None, Str(<<>>), Str(<<"X">>), Str(<<"$", "{", "c", "}">>),
      List(<<>>), List(<<Str(<<"X">>), Str(<<"Y">>)>>),
      Dict(<<"a">> :> Str(<<"X">>)) }

BindingsC ==
    { None, Str(<<"Z">>), List(<<Str(<<"Z">>)>>) }

\* a dict holding the keys that are bound
MkValues(vb, vc) ==
    [k \in (IF vb = None THEN {} ELSE {<<"b">>})
           \cup (IF vc = None THEN {} ELSE {<<"c">>})
        |-> IF k = <<"b">> THEN vb ELSE vc]

Environments == { MkValues(vb, vc) : vb \in BindingsB, vc \in BindingsC }

(***************************************************************************)
(* ResolutionEnv objects.  self.values binds a name to a str or a list (by *)
(* value) or to a dict object, held by its address in e_heap: __copy__     *)
(* copies self.values one level deep, so both environments then hold the   *)
(* same dict objects, and add_values updates a dict object in place.       *)
(***************************************************************************)
Ref(a) == [t |-> "ref", a |-> a]

\* self.values as Python sees it: the dict objects looked up
View(values, heap) ==
    [k \in DOMAIN values |->
        IF values[k].t = "ref" THEN Dict(heap[values[k].a]) ELSE values[k]]

EnvView(i) ==
    IF e_values[i] = NoEnv THEN NoEnv ELSE Dict(View(e_values[i], e_heap))

\* d[key] = v
DictSet(d, key, v) ==
    [k \in DOMAIN d \cup {key} |-> IF k = key THEN v ELSE d[k]]

\* one element of the iterable given to dict.update: a sequence of length 2
PairOk(e) ==
    \/ e.t = "str" /\ Len(e.s) = 2
    \/ e.t = "list" /\ Len(e.l) = 2 /\ e.l[1].t = "str"
PairKey(e) == IF e.t = "str" THEN <<e.s[1]>> ELSE e.l[1].s
PairVal(e) == IF e.t = "str" THEN Str(<<e.s[2]>>) ELSE e.l[2]

\* dict.update over an iterable of pairs: the pairs before a bad one are set
RECURSIVE UpdatePairs(_, _, _)
UpdatePairs(d, elems, i) ==
    IF i > Len(elems) THEN [d |-> d, err |-> FALSE]
    ELSE IF ~PairOk(elems[i]) THEN [d |-> d, err |-> TRUE]
    ELSE UpdatePairs(DictSet(d, PairKey(elems[i]), PairVal(elems[i])), elems, i + 1)

\* d.update(v): one level deep; v's entries replace d's
DictUpdate(d, v) ==
    IF v.t = "dict"
    THEN [d |-> [k \in DOMAIN d \cup DOMAIN v.d |->
                    IF k \in DOMAIN v.d THEN v.d[k] ELSE d[k]],
          err |-> FALSE]
    ELSE IF v.t = "str"
    THEN [d |-> d, err |-> v.s # <<>>]
    ELSE IF v.t = "list"
    THEN UpdatePairs(d, v.l, 1)
    ELSE [d |-> d, err |-> TRUE]

\* the body of the loop of add_values, on st = [values, heap, err]
AddValue(st, k, v) ==
    LET rv == resolve(v, View(st.values, st.heap), FALSE)
    IN  IF st.err \/ rv.t = "error" THEN [st EXCEPT !.err = TRUE]
        ELSE IF k \in DOMAIN st.values /\ st.values[k].t = "ref"
        THEN LET a == st.values[k].a
                 u == DictUpdate(st.heap[a], rv)
             IN  [values |-> st.values,
                  heap |-> [st.heap EXCEPT ![a] = u.d],
                  err |-> u.err]
        ELSE IF rv.t = "dict"
        THEN [values |-> DictSet(st.values, k, Ref(Len(st.heap) + 1)),
              heap |-> Append(st.heap, rv.d),
              err |-> FALSE]
        ELSE [values |-> DictSet(st.values, k, rv),
              heap |-> st.heap,
              err |-> FALSE]

\* add_values(values): the items in the order of the dict; an exception ends it
RECURSIVE add_values(_, _, _)
add_values(st, items, i) ==
    IF i > Len(items) \/ st.err THEN st
    ELSE add_values(AddValue(st, items[i][1], items[i][2]), items, i + 1)

S1(c) == Str(<<c>>)
Mappings ==
    { << <<<<"k">>, Dict(<<"a">> :> S1("1"))>> >>,
      << <<<<"k">>, Dict(<<"b">> :> S1("2"))>> >>,
      << <<<<"k">>, Dict(<<"a">> :> Dict(<<"x">> :> S1("1")))>> >>,
      << <<<<"k">>, Dict(<<"a">> :> Dict(<<"y">> :> S1("2")))>> >>,
      << <<<<"k">>, Str(<<"v">>)>> >>,
      << <<<<"k">>, List(<<Str(<<"x", "y">>), Str(<<"z">>)>>)>> >>,
      << <<<<"j">>, S1("1")>>,
         <<<<"k">>, Dict(<<"b">> :> Str(<<"$", "{", "j", "}">>))>> >> }

\* env1 = ResolutionEnv({})
InitEnv ==
    /\ IdleResolve /\ IdleDepname /\ IdleVerbosity /\ IdleModule
    /\ e_values = <<EmptyDict, NoEnv>>
    /\ e_heap = <<>>
    /\ e_last = [op |-> "none"]
    /\ e_ops = 0

CallAddValues(i, items) ==
    /\ e_ops < MaxOps
    /\ e_values[i] # NoEnv
    /\ LET st == add_values([values |-> e_values[i], heap |-> e_heap, err |-> FALSE],
                            items, 1)
       IN  /\ e_values' = [e_values EXCEPT ![i] = st.values]
           /\ e_heap' = st.heap
           /\ e_last' = [op |-> "add_values", env |-> i, arg |-> items,
                         err |-> st.err, pre |-> <<EnvView(1), EnvView(2)>>]
    /\ e_ops' = e_ops + 1
    /\ UNCHANGED <<rvars, dvars, vvars, mvars, pvars>>

\* env2 = copy(env1): ResolutionEnv(self.values.copy())
CallCopy ==
    /\ e_ops < MaxOps
    /\ e_values[1] # NoEnv
    /\ e_values' = [e_values EXCEPT ![2] = e_values[1]]
    /\ e_last' = [op |-> "copy"]
    /\ e_ops' = e_ops + 1
    /\ UNCHANGED <<e_heap, rvars, dvars, vvars, mvars, pvars>>

NextEnv ==
    \/ \E i \in 1..2, items \in Mappings : CallAddValues(i, items)
    \/ CallCopy

SpecEnv == InitEnv /\ [][NextEnv]_vars

InitResolve ==
    /\ IdleEnv /\ IdleDepname /\ IdleVerbosity /\ IdleModule
    /\ r_s \in Inputs
    /\ r_values \in Environments
    /\ r_final \in BOOLEAN
    /\ r_ret = NotCalled
    /\ r_pc = "start"

CallResolve ==
    /\ r_pc = "start"
    /\ r_ret' = resolve(r_s, r_values, r_final)
    /\ r_pc' = "done"
    /\ UNCHANGED <<r_s, r_values, r_final>>
    /\ UNCHANGED <<evars, dvars, vvars, mvars, pvars>>

NextResolve == CallResolve

SpecResolve == InitResolve /\ [][NextResolve]_vars

(***************************************************************************)
(* What the claims about resolve speak of: the placeholders of a string,   *)
(* and the string with its placeholders replaced, read left to right.      *)
(***************************************************************************)
PlaceholderNames(s) ==
    { StripSoft(re_finditer(s, 1)[i].group1) : i \in 1..Len(re_finditer(s, 1)) }

\* the matches of s whose name is bound to a value of type ty
CountBound(s, values, ty) ==
    Cardinality({ i \in 1..Len(re_finditer(s, 1)) :
        DictGet(values, StripSoft(re_finditer(s, 1)[i].group1)).t = ty })

\* s from position i on, each placeholder replaced by bind[name] (a string)
RECURSIVE Substituted(_, _, _)
Substituted(s, i, bind) ==
    IF i > Len(s) THEN <<>>
    ELSE IF MatchAt(s, i)
         THEN LET j == SkipName(s, i + 2)
              IN  bind[StripSoft(SubSeq(s, i + 2, j - 1))]
                  \o Substituted(s, j + 1, bind)
         ELSE <<s[i]>> \o Substituted(s, i + 1, bind)

\* whether a value holds, at any depth, a placeholder of a name not in bound
RECURSIVE HasUnboundPlaceholder(_, _)
HasUnboundPlaceholder(v, bound) ==
    IF v.t = "str" THEN PlaceholderNames(v.s) \ bound # {}
    ELSE IF v.t = "list"
    THEN \E i \in 1..Len(v.l) : HasUnboundPlaceholder(v.l[i], bound)
    ELSE IF v.t = "dict"
    THEN \E k \in DOMAIN v.d : HasUnboundPlaceholder(v.d[k], bound)
    ELSE FALSE

RECURSIVE AllPlaceholderNames(_)
AllPlaceholderNames(v) ==
    IF v.t = "str" THEN PlaceholderNames(v.s)
    ELSE IF v.t = "list"
    THEN UNION { AllPlaceholderNames(v.l[i]) : i \in 1..Len(v.l) }
    ELSE IF v.t = "dict"
    THEN UNION { AllPlaceholderNames(v.d[k]) : k \in DOMAIN v.d }
    ELSE {}

\* the bound values themselves hold no placeholder text
PlainValues(values) ==
    \A k \in DOMAIN values : AllPlaceholderNames(values[k]) = {}

\* C1: resolve of a scalar string whose placeholder names are all bound to
\* scalar strings (the empty string included) returns, for either value of
\* final, the string with every placeholder replaced by the bound value and
\* every other character unchanged and in order.
C1_ScalarSubstitution ==
    ( /\ r_pc = "done"
      /\ r_s.t = "str"
      /\ \A n \in PlaceholderNames(r_s.s) : DictGet(r_values, n).t = "str" )
    => r_ret = Str(Substituted(r_s.s, 1, [n \in DOMAIN r_values |-> r_values[n].s]))

\* C2: for an input of any shape (scalar, sequence, mapping, nested),
\* resolve with final = FALSE leaves the placeholders of unbound names
\* untouched (an input all of whose placeholders are unbound comes back
\* unchanged), and resolve with final = TRUE leaves no placeholder of an
\* unbound name anywhere in its result.  Stated for inputs whose other
\* placeholders are bound to scalar strings that hold no placeholder text.
C2_UnboundNames ==
    ( /\ r_pc = "done"
      /\ PlainValues(r_values)
      /\ \A n \in AllPlaceholderNames(r_s) :
            DictGet(r_values, n).t \in {"none", "str"} )
    => /\ ( ~r_final /\ AllPlaceholderNames(r_s) \cap DOMAIN r_values = {} )
            => r_ret = r_s
       /\ r_final => ~HasUnboundPlaceholder(r_ret, DOMAIN r_values)

\* C3: resolve of a scalar string with exactly one placeholder bound to a
\* sequence of N >= 0 strings, its other placeholders bound to (non-empty)
\* scalar strings on either side, returns the sequence of N strings whose
\* i-th element is the string with the sequence placeholder replaced by the
\* i-th element and the scalar placeholders by their values.
C3_SequenceExpansion ==
    ( /\ r_pc = "done"
      /\ r_s.t = "str"
      /\ CountBound(r_s.s, r_values, "list") = 1
      /\ \A n \in PlaceholderNames(r_s.s) :
            \/ DictGet(r_values, n).t = "list"
            \/ DictGet(r_values, n).t = "str" /\ DictGet(r_values, n).s # <<>> )
    => LET seqname == CHOOSE n \in PlaceholderNames(r_s.s) :
                          DictGet(r_values, n).t = "list"
           elems == r_values[seqname].l
       IN  r_ret = List([i \in 1..Len(elems) |->
                Str(Substituted(r_s.s, 1,
                    [n \in DOMAIN r_values |->
                        IF n = seqname THEN elems[i].s
                        ELSE IF r_values[n].t = "str" THEN r_values[n].s
                        ELSE <<>>]))])

(***************************************************************************)
(* Dependency qualifiers (common.py 46-64).  A name is a Python str; the   *)
(* index name[len(name) - 1] of the empty str raises IndexError.           *)
(***************************************************************************)
\* the tuple (name, spec) that decompose_depname returns
Pair(name, spec) == [t |-> "tuple", name |-> name, spec |-> spec]

decompose_depname(name) ==
    IF name = <<>> THEN Raised
    ELSE LET specchar == name[Len(name)]
             spec == IF specchar = "?" THEN "maybe"
                     ELSE IF specchar = "!" THEN "demand"
                     ELSE "req"
         IN  IF spec # "req"
             THEN Pair(SubSeq(name, 1, Len(name) - 1), spec)
             ELSE Pair(name, spec)

with_qualifier_swapped(name, q) ==
    IF decompose_depname(name) = Raised THEN Raised
    ELSE IF q = "req" THEN Str(decompose_depname(name).name)
    ELSE IF q = "maybe" THEN Str(decompose_depname(name).name \o <<"!">>)
    ELSE IF q = "demand" THEN Str(decompose_depname(name).name \o <<"?">>)
    ELSE None

with_qualifier(name, q) ==
    IF q \notin {"req", "maybe", "demand"} THEN None
    ELSE IF decompose_depname(name) = Raised THEN Raised
    ELSE IF q = "req" THEN Str(decompose_depname(name).name)
    ELSE IF q = "maybe" THEN Str(decompose_depname(name).name \o <<"?">>)
    ELSE Str(decompose_depname(name).name \o <<"!">>)

NameChars == {"a", "b", "?", "!"}

RECURSIVE NamesOf(_)
NamesOf(n) ==
    IF n = 0 THEN { <<>> }
    ELSE NamesOf(n - 1) \cup { s \o <<c>> : s \in NamesOf(n - 1), c \in NameChars }

\* the non-empty names
Names == NamesOf(MaxNameLen) \ { <<>> }

InitDepname ==
    /\ IdleResolve /\ IdleEnv /\ IdleVerbosity /\ IdleModule
    /\ d_name \in Names
    /\ d_dec = NotCalled
    /\ d_out = NotCalled
    /\ d_pc = "start"

\* (base, q) = decompose_depname(n)
CallDecompose ==
    /\ d_pc = "start"
    /\ d_dec' = decompose_depname(d_name)
    /\ d_pc' = "decomposed"
    /\ UNCHANGED <<d_name, d_out>>
    /\ UNCHANGED <<rvars, evars, vvars, mvars, pvars>>

\* with_qualifier(base, q)
CallWithQualifier ==
    /\ d_pc = "decomposed"
    /\ d_dec # Raised
    /\ d_out' = with_qualifier(d_dec.name, d_dec.spec)
    /\ d_pc' = "done"
    /\ UNCHANGED <<d_name, d_dec>>
    /\ UNCHANGED <<rvars, evars, vvars, mvars, pvars>>

NextDepname == CallDecompose \/ CallWithQualifier

SpecDepname == InitDepname /\ [][NextDepname]_vars

(***************************************************************************)
(* The verbosity gate (common.py 208-227).                                 *)
(***************************************************************************)
Levels == 0..MaxLevel

\* sfprint(verbosity, *args): what stdout holds afterwards
sfprint_strict(verbosity, level, stdout) ==
    IF verbosity < level THEN Append(stdout, verbosity) ELSE stdout

sfprint(verbosity, level, stdout) ==
    IF verbosity <= level THEN Append(stdout, verbosity) ELSE stdout

InitVerbosity ==
    /\ IdleResolve /\ IdleEnv /\ IdleDepname /\ IdleModule
    /\ IdleVerbosity

CallSfprint(verbosity) ==
    /\ Len(v_stdout) < MaxPrints
    /\ v_stdout' = sfprint(verbosity, verbosity_level, v_stdout)
    /\ v_last' = [op |-> "sfprint", verbosity |-> verbosity,
                  before |-> verbosity_level,
                  emitted |-> v_stdout' # v_stdout]
    /\ UNCHANGED <<verbosity_level, v_set>>
    /\ UNCHANGED <<rvars, evars, dvars, mvars, pvars>>

CallSetVerbosityLevel(level) ==
    /\ verbosity_level' = level
    /\ v_set' = level
    /\ v_last' = [op |-> "set", level |-> level]
    /\ UNCHANGED v_stdout
    /\ UNCHANGED <<rvars, evars, dvars, mvars, pvars>>

CallGetVerbosityLevel ==
    /\ v_last' = [op |-> "get", before |-> verbosity_level,
                  ret |-> verbosity_level]
    /\ UNCHANGED <<verbosity_level, v_stdout, v_set>>
    /\ UNCHANGED <<rvars, evars, dvars, mvars, pvars>>

NextVerbosity ==
    \/ \E verbosity \in Levels : CallSfprint(verbosity)
    \/ \E level \in Levels : CallSetVerbosityLevel(level)
    \/ CallGetVerbosityLevel

SpecVerbosity == InitVerbosity /\ [][NextVerbosity]_vars

(***************************************************************************)
(* The process wrapper sub (common.py 102-114).  child is what the         *)
(* external process did: its return code and the two captured streams.     *)
(* The result is what sub printed, the value it returned (NotCalled when   *)
(* it did not return) and the process state after it.                      *)
(***************************************************************************)
\* out.stdout, the bytes captured from the child
Bytes(b) == [t |-> "bytes", b |-> b]

\* one print of sub: what it is about, and the decoded text
Report(what, text) == [what |-> what, text |-> text]

sub_no_exit(args, child, print_stdout_on_fail) ==
    [printed |-> IF child.returncode # 0
                 THEN <<Report("error", args[1])>>
                      \o (IF print_stdout_on_fail
                          THEN <<Report("stdout", child.stdout)>> ELSE <<>>)
                      \o <<Report("stderr", child.stderr)>>
                 ELSE <<>>,
     exit |-> Running,
     ret |-> Bytes(child.stdout)]

sub(args, child, print_stdout_on_fail) ==
    IF child.returncode # 0
    THEN [printed |-> <<Report("error", args[1])>>
                      \o (IF print_stdout_on_fail
                          THEN <<Report("stdout", child.stdout)>> ELSE <<>>)
                      \o <<Report("stderr", child.stderr)>>,
          exit |-> Exited(child.returncode),
          ret |-> NotCalled]
    ELSE [printed |-> <<>>, exit |-> Running, ret |-> Bytes(child.stdout)]

Children ==
    [returncode : 0..MaxRc, stdout : {"", "out"}, stderr : {"err"}]

(***************************************************************************)
(* YosysModule (yosys.py).  Product names are Python strs.                 *)
(***************************************************************************)
N_json == <<"j", "s", "o", "n">>
N_synth_log == <<"s", "y", "n", "t", "h", "_", "l", "o", "g">>
N_eblif == <<"e", "b", "l", "i", "f">>
N_fasm_extra == <<"f", "a", "s", "m", "_", "e", "x", "t", "r", "a">>
N_synth_json == <<"s", "y", "n", "t", "h", "_", "j", "s", "o", "n">>

\* YosysModule.__init__(params); produces is params.get("produces")
YosysModule_init(fam, produces) ==
    LET pnrtool == IF fam = "ice40" THEN "nextpnr" ELSE "vpr"
        extra == IF Falsy(produces) THEN <<>> ELSE produces.l
    IN  [name |-> "yosys",
         no_of_phases |-> NoOfPhases,
         pnrtool |-> pnrtool,
         produces |-> <<N_json, N_synth_log \o <<"!">> >>
                      \o (IF pnrtool = "vpr"
                          THEN <<N_eblif, N_fasm_extra, N_synth_json>> ELSE <<>>)
                      \o extra,
         extra_products |-> extra]

\* Path(build_dir) / top if build_dir else Path(top), as its components
TopPath(ctx) ==
    IF ctx.build_dir # "" THEN <<ctx.build_dir, ctx.top>> ELSE <<ctx.top>>

Parent(path) == SubSeq(path, 1, Len(path) - 1)

FixedMapping(top) ==
    N_eblif :> [path |-> top, suffix |-> ".eblif"]
    @@ N_fasm_extra :> [path |-> top, suffix |-> "_fasm_extra.fasm"]
    @@ N_json :> [path |-> top, suffix |-> ".json"]
    @@ N_synth_json :> [path |-> top, suffix |-> "_io.json"]

\* the loop of map_io over self.extra_products, from the i-th on
RECURSIVE MapExtras(_, _, _, _)
MapExtras(mapping, extras, i, ctx) ==
    IF i > Len(extras) THEN Dict(mapping)
    ELSE LET dec == decompose_depname(extras[i])
         IN  IF dec = Raised THEN Raised
             ELSE IF dec.spec = "maybe" THEN Raised
             ELSE IF dec.spec = "req"
             THEN MapExtras(
                    DictSet(mapping, dec.name,
                            [dir |-> Parent(TopPath(ctx)),
                             file |-> <<ctx.device, "_", dec.name, ".", dec.name>>]),
                    extras, i + 1, ctx)
             ELSE MapExtras(mapping, extras, i + 1, ctx)

map_io_no_json(self, ctx) ==
    MapExtras([k \in DOMAIN FixedMapping(TopPath(ctx)) \ {N_json}
                  |-> FixedMapping(TopPath(ctx))[k]],
              self.extra_products, 1, ctx)

\* YosysModule.map_io(ctx)
map_io(self, ctx) ==
    MapExtras(FixedMapping(TopPath(ctx)), self.extra_products, 1, ctx)

\* str.lower() of a file suffix
Lower(ext) == IF ext = ".V" THEN ".v" ELSE IF ext = ".SV" THEN ".sv" ELSE ext
is_verilog(f) == Lower(f.suffix) \in {".v", ".sv"}
is_rtlil(f) == Lower(f.suffix) \in {".il", ".rtlil"}

\* the arguments execute gives to sub (yosys.py 72-106)
YosysArgs(self, ctx) ==
    <<"yosys">>
    \o (IF ctx.synth_log # "" THEN <<"-l", ctx.synth_log>> ELSE <<>>)
    \o <<"-p",
         [read_verilog |-> SelectSeq(ctx.sources, is_verilog),
          read_rtlil |-> SelectSeq(ctx.sources, is_rtlil),
          tcl |-> self.pnrtool]>>

\* the message of the one yield of execute (yosys.py 55)
Message(ctx, level) ==
    IF level >= 2 THEN [text |-> "Synthesizing sources", sources |-> ctx.sources]
    ELSE [text |-> "Synthesizing sources", sources |-> <<>>]

\* params.get("produces"): None, or a list of product names
Params ==
    { None,
      List(<<>>),
      List(<< <<"x">> >>),
      List(<< <<"y", "!">> >>),
      List(<< <<"z", "?">> >>),
      List(<< <<>> >>),
      List(<< <<"x">>, <<"y", "!">> >>),
      List(<< <<"y", "!">>, <<"x">> >>),
      List(<< <<"x">>, <<"z", "?">> >>),
      List(<< <<"w", "?", "!">>, <<"j", "s", "o", "n", "!">> >>) }

SourceLists ==
    { <<[stem |-> "a", suffix |-> ".v"]>>,
      <<[stem |-> "a", suffix |-> ".SV"], [stem |-> "b", suffix |-> ".il"],
        [stem |-> "c", suffix |-> ".txt"]>> }

Contexts ==
    [build_dir : {"", "build"}, top : {"top"}, device : {"dev"},
     synth_log : {"", "synth.log"}, sources : SourceLists]

FasmExtra(ctx) == [path |-> TopPath(ctx), suffix |-> "_fasm_extra.fasm"]

Alive == p_exit = Running

InitYosys ==
    /\ IdleResolve /\ IdleEnv /\ IdleDepname
    /\ verbosity_level \in {1, 2}
    /\ v_stdout = <<>>
    /\ v_last = [op |-> "none"]
    /\ v_set = verbosity_level
    /\ m_fam \in {"ice40", "xc7"}
    /\ m_self = None
    /\ m_ctx \in Contexts
    /\ m_mapping = [op |-> "none"]
    /\ m_msgs = <<>>
    /\ m_after = FALSE
    /\ m_pc = "new"
    /\ s_last = [op |-> "none"]
    /\ p_files = {}
    /\ p_stdout = <<>>
    /\ p_exit = Running
    /\ p_runs = 0

\* a call of sub by some other code of the flow, with either policy flag
CallSub(child, print_stdout_on_fail) ==
    /\ Alive
    /\ m_pc = "new"
    /\ p_runs < MaxRuns
    /\ LET r == sub(<<"tool">>, child, print_stdout_on_fail)
       IN  /\ s_last' = [op |-> "sub", args |-> <<"tool">>, child |-> child,
                         print_stdout_on_fail |-> print_stdout_on_fail,
                         ret |-> r.ret, before |-> p_stdout]
           /\ p_stdout' = p_stdout \o r.printed
           /\ p_exit' = r.exit
           /\ m_pc' = IF r.exit = Running THEN m_pc ELSE "exited"
    /\ p_runs' = p_runs + 1
    /\ UNCHANGED <<m_fam, m_self, m_ctx, m_mapping, m_msgs, m_after, p_files>>
    /\ UNCHANGED <<rvars, evars, dvars, vvars>>

\* YosysModule(params)
Construct(produces) ==
    /\ Alive
    /\ m_pc = "new"
    /\ m_self' = YosysModule_init(m_fam, produces)
    /\ m_pc' = "ready"
    /\ UNCHANGED <<m_fam, m_ctx, m_mapping, m_msgs, m_after>>
    /\ UNCHANGED <<rvars, evars, dvars, vvars, pvars>>

\* self.map_io(ctx)
CallMapIo ==
    /\ Alive
    /\ m_pc = "ready"
    /\ m_mapping' = [op |-> "map_io", ret |-> map_io(m_self, m_ctx),
                     runs |-> p_runs]
    /\ UNCHANGED <<m_fam, m_self, m_ctx, m_msgs, m_after, m_pc>>
    /\ UNCHANGED <<rvars, evars, dvars, vvars, pvars>>

\* the first next() on self.execute(ctx): runs to the yield of line 55
ExecuteFirst ==
    /\ Alive
    /\ m_pc = "ready"
    /\ m_msgs' = Append(m_msgs, Message(m_ctx, verbosity_level))
    /\ m_pc' = "yielded"
    /\ UNCHANGED <<m_fam, m_self, m_ctx, m_mapping, m_after>>
    /\ UNCHANGED <<rvars, evars, dvars, vvars, pvars>>

\* the second next(): lines 57-113, to the end of the generator.  The child
\* process may or may not write the fasm_extra file.
ExecuteRest(child, wrote) ==
    /\ Alive
    /\ m_pc = "yielded"
    /\ LET r == sub(YosysArgs(m_self, m_ctx), child, FALSE)
           files == IF wrote THEN p_files \cup {FasmExtra(m_ctx)} ELSE p_files
       IN  /\ s_last' = [op |-> "sub", args |-> YosysArgs(m_self, m_ctx),
                         child |-> child, print_stdout_on_fail |-> FALSE,
                         ret |-> r.ret, before |-> p_stdout]
           /\ p_stdout' = p_stdout \o r.printed
           /\ p_exit' = r.exit
           /\ IF r.exit # Running
              THEN /\ m_pc' = "exited"
                   /\ p_files' = files
                   /\ m_after' = m_after
              ELSE /\ m_pc' = "exhausted"
                   /\ m_after' = TRUE
                   /\ p_files' = IF m_self.pnrtool = "vpr"
                                 THEN files \cup {FasmExtra(m_ctx)} ELSE files
    /\ p_runs' = p_runs + 1
    /\ UNCHANGED <<m_fam, m_self, m_ctx, m_mapping, m_msgs>>
    /\ UNCHANGED <<rvars, evars, dvars, vvars>>

NextYosys ==
    \/ \E child \in Children, flag \in BOOLEAN : CallSub(child, flag)
    \/ \E produces \in Params : Construct(produces)
    \/ CallMapIo
    \/ ExecuteFirst
    \/ \E child \in Children, wrote \in BOOLEAN : ExecuteRest(child, wrote)

SpecYosys == InitYosys /\ [][NextYosys]_vars

RECURSIVE DeepMerge(_, _)
DeepMerge(old, new) ==
    [k \in DOMAIN old \cup DOMAIN new |->
        IF k \notin DOMAIN new THEN old[k]
        ELSE IF k \notin DOMAIN old THEN new[k]
        ELSE IF old[k].t = "dict" /\ new[k].t = "dict"
             THEN Dict(DeepMerge(old[k].d, new[k].d))
        ELSE new[k]]

\* C4: after an add_values call, for every key whose incoming value is a
\* mapping (without placeholders) and whose stored value was a mapping, the
\* stored value is the recursive merge of the two at every depth: old key
\* paths kept, new ones added, only conflicting scalar leaves overwritten.
C4_RecursiveMerge ==
    ( e_last.op = "add_values" /\ ~e_last.err )
    => \A n \in 1..Len(e_last.arg) :
          LET k == e_last.arg[n][1]
              v == e_last.arg[n][2]
              pre == e_last.pre[e_last.env].d
          IN  ( /\ v.t = "dict"
                /\ AllPlaceholderNames(v) = {}
                /\ k \in DOMAIN pre
                /\ pre[k].t = "dict" )
              => EnvView(e_last.env).d[k] = Dict(DeepMerge(pre[k].d, v.d))

\* C10: an add_values call on one environment leaves every binding of the
\* other environment, its copy or its original, as it was before the call.
C10_CopyIsolation ==
    e_last.op = "add_values"
    => \A i \in 1..2 : i # e_last.env => EnvView(i) = e_last.pre[i]

Markers == {"?", "!"}

ExpectedSpec(n) ==
    IF n[Len(n)] = "?" THEN "maybe" ELSE IF n[Len(n)] = "!" THEN "demand" ELSE "req"

ExpectedBase(n) ==
    IF n[Len(n)] \in Markers THEN SubSeq(n, 1, Len(n) - 1) ELSE n

\* C5 (as claimed): for every non-empty name n, decompose_depname(n) gives
\* the qualifier of n's last character and n without that one marker, and
\* with_qualifier of the two gives n back.
C5_RoundTrip ==
    /\ d_pc \in {"decomposed", "done"}
        => d_dec = Pair(ExpectedBase(d_name), ExpectedSpec(d_name))
    /\ d_pc = "done" => d_out = Str(d_name)

\* C5 (amended): the decomposition is as claimed for every non-empty name;
\* with_qualifier gives n back when the base is not empty and does not
\* itself end in a marker.
C5_RoundTripSingleMarker ==
    /\ d_pc \in {"decomposed", "done"}
        => d_dec = Pair(ExpectedBase(d_name), ExpectedSpec(d_name))
    /\ ( /\ d_pc = "done"
         /\ ExpectedBase(d_name) # <<>>
         /\ ExpectedBase(d_name)[Len(ExpectedBase(d_name))] \notin Markers )
        => d_out = Str(d_name)

C5_Witness ==
    /\ d_pc = "done"
    /\ d_name = <<"a", "b", "!">>
    /\ d_dec = Pair(<<"a", "b">>, "demand")
    /\ d_out = Str(d_name)

\* C9: get_verbosity_level returns the argument of the last
\* set_verbosity_level (0 if none); sfprint(required, ...) prints if and
\* only if the level is at least required; sfprint and get_verbosity_level
\* leave the level as it is.
C9_VerbosityGate ==
    /\ verbosity_level = v_set
    /\ v_last.op = "get" => v_last.ret = v_set /\ v_last.before = verbosity_level
    /\ v_last.op = "sfprint"
        => /\ v_last.emitted <=> verbosity_level >= v_last.verbosity
           /\ v_last.before = verbosity_level

C9_Witness ==
    /\ v_set = 1
    /\ v_last.op = "sfprint"
    /\ v_last.verbosity = 1
    /\ v_last.emitted
    /\ v_stdout = <<0, 1>>

FailureReport(call) ==
    <<Report("error", call.args[1])>>
    \o (IF call.print_stdout_on_fail
        THEN <<Report("stdout", call.child.stdout)>> ELSE <<>>)
    \o <<Report("stderr", call.child.stderr)>>

C7_MessagePerPhase ==
    m_pc = "exhausted" => Len(m_msgs) = m_self.no_of_phases

ProductsOf(self) == { self.produces[i] : i \in 1..Len(self.produces) }

\* C8 (as claimed): the mapping map_io returns has an entry for the base
\* name of every product of self.produces.
C8_MapIoCoversProduces ==
    m_mapping.op = "map_io"
    => /\ m_mapping.ret.t = "dict"
       /\ \A prod \in ProductsOf(m_self) :
             ExpectedBase(prod) \in DOMAIN m_mapping.ret.d

\* C8 (amended): when no extra product is empty or ends in the optional
\* marker, map_io returns a mapping whose entries are json, eblif,
\* fasm_extra, synth_json and every extra product without a marker, so every
\* product of self.produces without a marker has one; map_io runs no
\* external process.
C8_MapIoCoversRequired ==
    m_mapping.op = "map_io"
    => /\ ( \A i \in 1..Len(m_self.extra_products) :
               /\ m_self.extra_products[i] # <<>>
               /\ ExpectedSpec(m_self.extra_products[i]) # "maybe" )
          => /\ m_mapping.ret.t = "dict"
             /\ \A prod \in ProductsOf(m_self) :
                   ExpectedSpec(prod) = "req" => prod \in DOMAIN m_mapping.ret.d
             /\ DOMAIN m_mapping.ret.d =
                   {N_json, N_eblif, N_fasm_extra, N_synth_json}
                   \cup { prod \in ProductsOf(m_self) : ExpectedSpec(prod) = "req" }
       /\ m_pc = "ready" => p_runs = m_mapping.runs

C8_Witness ==
    /\ m_mapping.op = "map_io"
    /\ m_self.extra_products = << <<"x">>, <<"y", "!">> >>
    /\ m_self.pnrtool = "vpr"
    /\ m_mapping.ret.t = "dict"
    /\ <<"x">> \in DOMAIN m_mapping.ret.d
    /\ <<"y">> \notin DOMAIN m_mapping.ret.d

====
